---- MODULE Spec2Model ----
(***************************************************************************)
(* The DMI metadata parser of dmi-rust (src/parser): the key-value         *)
(* recognizer, the header and state block assemblers and the document      *)
(* assembler, modelled over sequences of one-character strings.  Each nom  *)
(* parser is an operator from the remaining input to a result              *)
(* [ok, rest, val]; a failed parser leaves `rest` at its input.            *)
(***************************************************************************)
EXTENDS Integers, Sequences, FiniteSets, TLC

VARIABLES doc, text, op, res

vars == <<doc, text, op, res>>

(***************************************************************************)
(* Characters and the nom character classes.                               *)
(***************************************************************************)
Lower ==
    {"a","b","c","d","e","f","g","h","i","j","k","l","m",
     "n","o","p","q","r","s","t","u","v","w","x","y","z"}

Upper ==
    {"A","B","C","D","E","F","G","H","I","J","K","L","M",
     "N","O","P","Q","R","S","T","U","V","W","X","Y","Z"}

Alpha == Lower \cup Upper

DigitChars == <<"0","1","2","3","4","5","6","7","8","9">>

Digit == {DigitChars[i] : i \in 1..10}

DigitVal(c) == (CHOOSE i \in 1..10 : DigitChars[i] = c) - 1

Space == {" ", "\t"}

MultiSpace == {" ", "\t", "\r", "\n"}

Quote == "\""

Take(s, n) == SubSeq(s, 1, n)

Drop(s, n) == SubSeq(s, n + 1, Len(s))

\* IResult: Ok((rest, val)) and Err(Error(..)).
Ok(r, v) == [ok |-> TRUE, rest |-> r, val |-> v]

Fail(s) == [ok |-> FALSE, rest |-> s, val |-> "error"]

\* `let v = ..; Op(v)`
Bind(v, Op(_)) == Op(v)

\* The `?` of a sequence of parsers: a failed step p fails the parser that
\* started at s, a successful one is handed on.
Then(p, s, Op(_)) == IF p.ok THEN Op(p) ELSE Fail(s)

\* Length of the longest prefix of s, from position i on, made of characters of cs.
RECURSIVE SpanLen(_, _, _)
SpanLen(s, i, cs) ==
    IF i <= Len(s) /\ s[i] \in cs THEN 1 + SpanLen(s, i + 1, cs) ELSE 0

\* The first n characters of s as the value, at least least of them.
Split(s, n, least) == IF n >= least THEN Ok(Drop(s, n), Take(s, n)) ELSE Fail(s)

tag(t, s) ==
    IF Len(s) >= Len(t) /\ Take(s, Len(t)) = t THEN Ok(Drop(s, Len(t)), t) ELSE Fail(s)

newline(s) == IF s # <<>> /\ s[1] = "\n" THEN Ok(Tail(s), "\n") ELSE Fail(s)

alpha1(s) == Split(s, SpanLen(s, 1, Alpha), 1)

space1(s) == Split(s, SpanLen(s, 1, Space), 1)

multispace0(s) == Split(s, SpanLen(s, 1, MultiSpace), 0)

(***************************************************************************)
(* Value (parser/values.rs, not among the sources): Int(u32), Float(f32),  *)
(* String, List(Vec<f32>).  A float is kept as the decimal it was written  *)
(* as, [m, e] = m / 10^e, normalised so that equal decimals are equal      *)
(* records; the decimal stands for the f32 nearest to it, and a comparison *)
(* the code makes between f32 values is made on the roundings (see         *)
(* VersionSupported).                                                      *)
(***************************************************************************)
RECURSIVE Pow10(_)
Pow10(e) == IF e = 0 THEN 1 ELSE 10 * Pow10(e - 1)

RECURSIVE Norm(_, _)
Norm(m, e) == IF e > 0 /\ m % 10 = 0 THEN Norm(m \div 10, e - 1) ELSE [m |-> m, e |-> e]

F(m, e) == Norm(m, e)

Zero == [m |-> 0, e |-> 0]

VInt(n) == [tag |-> "Int", n |-> n, f |-> Zero, s |-> <<>>, l |-> <<>>]

VFloat(x) == [tag |-> "Float", n |-> 0, f |-> x, s |-> <<>>, l |-> <<>>]

VString(x) == [tag |-> "String", n |-> 0, f |-> Zero, s |-> x, l |-> <<>>]

VList(x) == [tag |-> "List", n |-> 0, f |-> Zero, s |-> <<>>, l |-> x]

RECURSIVE NatOf(_, _)
NatOf(ds, acc) == IF ds = <<>> THEN acc ELSE NatOf(Tail(ds), 10 * acc + DigitVal(Head(ds)))

digit1(s) == Split(s, SpanLen(s, 1, Digit), 1)

\* digits [ "." digits ] at s1, for a token that started at s with sign sgn.
\* Tokens of more than 9 digits are outside the model (every shorter one fits
\* a u32), and are rejected.
unsigned(s, s1, sgn) ==
    Then(digit1(s1), s, LAMBDA ip :
        Bind(IF ip.rest # <<>> /\ ip.rest[1] = "." THEN digit1(Tail(ip.rest)) ELSE Fail(s),
             LAMBDA fp :
                IF Len(ip.val) + (IF fp.ok THEN Len(fp.val) ELSE 0) > 9 THEN Fail(s)
                ELSE IF fp.ok
                THEN Ok(fp.rest, [f |-> F(sgn * NatOf(ip.val \o fp.val, 0), Len(fp.val)),
                                  dot |-> TRUE, signed |-> s1 # s])
                ELSE Ok(ip.rest, [f |-> F(sgn * NatOf(ip.val, 0), 0),
                                  dot |-> FALSE, signed |-> s1 # s])))

\* One numeric token: [sign] digits [ "." digits ].  val = [f, dot, signed].
number(s) ==
    unsigned(s,
             IF s # <<>> /\ s[1] \in {"-", "+"} THEN Tail(s) ELSE s,
             IF s # <<>> /\ s[1] = "-" THEN -1 ELSE 1)

\* The elements after the first of a comma-separated list: each "," must be
\* followed by a numeric token (an empty element is a grammar failure).
RECURSIVE list_tail(_, _)
list_tail(s, acc) ==
    IF s # <<>> /\ s[1] = ","
    THEN Then(number(Tail(s)), s, LAMBDA x : list_tail(x.rest, Append(acc, x.val.f)))
    ELSE Ok(s, acc)

\* Position of the first c in s at or after position i, 0 if there is none.
RECURSIVE FindChar(_, _, _)
FindChar(s, i, c) ==
    IF i > Len(s) THEN 0 ELSE IF s[i] = c THEN i ELSE FindChar(s, i + 1, c)

\* A quoted string: no escapes, ends at the next quote.
string(s) ==
    IF s # <<>> /\ s[1] = Quote
    THEN Bind(FindChar(s, 2, Quote), LAMBDA j :
            IF j > 0 THEN Ok(Drop(s, j), SubSeq(s, 2, j - 1)) ELSE Fail(s))
    ELSE Fail(s)

\* atom: a string, a list (only when a separating comma follows the first
\* number), a float (with a decimal point) or an unsigned integer.
atom(s) ==
    Bind(string(s), LAMBDA q :
        IF q.ok THEN Ok(q.rest, VString(q.val))
        ELSE Then(number(s), s, LAMBDA x :
            IF x.rest # <<>> /\ x.rest[1] = ","
            THEN Then(list_tail(x.rest, <<x.val.f>>), s, LAMBDA t : Ok(t.rest, VList(t.val)))
            ELSE IF x.val.dot THEN Ok(x.rest, VFloat(x.val.f))
            ELSE IF ~x.val.signed THEN Ok(x.rest, VInt(x.val.f.m))
            ELSE Fail(s)))

(***************************************************************************)
(* key_value.rs                                                            *)
(***************************************************************************)
Chars_version  == <<"v","e","r","s","i","o","n">>
Chars_width    == <<"w","i","d","t","h">>
Chars_height   == <<"h","e","i","g","h","t">>
Chars_state    == <<"s","t","a","t","e">>
Chars_dirs     == <<"d","i","r","s">>
Chars_frames   == <<"f","r","a","m","e","s">>
Chars_delay    == <<"d","e","l","a","y">>
Chars_loop     == <<"l","o","o","p">>
Chars_rewind   == <<"r","e","w","i","n","d">>
Chars_movement == <<"m","o","v","e","m","e","n","t">>
Chars_hotspot  == <<"h","o","t","s","p","o","t">>

\* enum Key: the known keys carry no name, Unk carries the token.
Key(t) == [tag |-> t, name |-> <<>>]

KeyUnk(n) == [tag |-> "Unk", name |-> n]

\* The `match key { .. }` of key.
KeyOf(a) ==
    CASE a = Chars_version  -> Key("Version")
      [] a = Chars_width    -> Key("Width")
      [] a = Chars_height   -> Key("Height")
      [] a = Chars_state    -> Key("State")
      [] a = Chars_dirs     -> Key("Dirs")
      [] a = Chars_frames   -> Key("Frames")
      [] a = Chars_delay    -> Key("Delay")
      [] a = Chars_loop     -> Key("Loop")
      [] a = Chars_rewind   -> Key("Rewind")
      [] a = Chars_movement -> Key("Movement")
      [] a = Chars_hotspot  -> Key("Hotspot")
      [] OTHER              -> KeyUnk(a)

key(s) == Then(alpha1(s), s, LAMBDA a : Ok(a.rest, KeyOf(a.val)))

\* A Dirs conversion that maps every other count to the next one up.
DirsTryFromRounding(n) ==
    CASE n <= 1 -> [ok |-> TRUE, val |-> "One"]
      [] n <= 4 -> [ok |-> TRUE, val |-> "Four"]
      [] n <= 8 -> [ok |-> TRUE, val |-> "Eight"]
      [] OTHER  -> [ok |-> FALSE, val |-> "error"]

\* impl TryFrom<u32> for Dirs: [ok, val].
DirsTryFrom(n) ==
    CASE n = 1 -> [ok |-> TRUE, val |-> "One"]
      [] n = 4 -> [ok |-> TRUE, val |-> "Four"]
      [] n = 8 -> [ok |-> TRUE, val |-> "Eight"]
      [] OTHER -> [ok |-> FALSE, val |-> "error"]

\* enum KeyValue: the payload of every variant but Dirs is kept as the Value
\* it was built from (arg); Dirs carries the enum (dirs); Unk carries its name.
KeyValue(k, v) == [kind |-> k, arg |-> v, dirs |-> "none", name |-> <<>>]

KeyValueDirs(d) == [kind |-> "Dirs", arg |-> VInt(0), dirs |-> d, name |-> <<>>]

KeyValueUnk(n, v) == [kind |-> "Unk", arg |-> v, dirs |-> "none", name |-> n]

Yes(x) == [ok |-> TRUE, val |-> x]

No == [ok |-> FALSE, val |-> "error"]

\* unreachable!(): the call does not return.
Panic == [ok |-> FALSE, val |-> "panic"]

\* The closure of key_value's map_res: [ok, val].
Validate(k, v) ==
    CASE k.tag = "Version"  /\ v.tag = "Float"  -> Yes(KeyValue("Version", v))
      [] k.tag = "Width"    /\ v.tag = "Int"    -> Yes(KeyValue("Width", v))
      [] k.tag = "Height"   /\ v.tag = "Int"    -> Yes(KeyValue("Height", v))
      [] k.tag = "State"    /\ v.tag = "String" -> Yes(KeyValue("State", v))
      [] k.tag = "Dirs"     /\ v.tag = "Int"    ->
            Bind(DirsTryFrom(v.n), LAMBDA d :
                IF d.ok THEN Yes(KeyValueDirs(d.val)) ELSE No)
      [] k.tag = "Frames"   /\ v.tag = "Int"    -> Yes(KeyValue("Frames", v))
      [] k.tag = "Delay"    /\ v.tag = "List"   -> Yes(KeyValue("Delay", v))
      [] k.tag = "Loop"     /\ v.tag = "Int"    -> Yes(KeyValue("Loop", v))
      [] k.tag = "Rewind"   /\ v.tag = "Int"    -> Yes(KeyValue("Rewind", v))
      [] k.tag = "Movement" /\ v.tag = "Int"    -> Yes(KeyValue("Movement", v))
      [] k.tag = "Hotspot"  /\ v.tag = "List"   -> Yes(KeyValue("Hotspot", v))
      [] k.tag = "Unk"                          -> Yes(KeyValueUnk(k.name, v))
      [] OTHER                                  -> No

Sep == <<" ", "=", " ">>

\* map_res(separated_pair(key, tag(" = "), atom), ..)
key_value(s) ==
    Then(key(s), s, LAMBDA k :
    Then(tag(Sep, k.rest), s, LAMBDA e :
    Then(atom(e.rest), s, LAMBDA a :
    Then(Validate(k.val, a.val), s, LAMBDA r : Ok(a.rest, r.val)))))

\* terminated(key_value, newline)
intro_line(s) ==
    Then(key_value(s), s, LAMBDA p :
    Then(newline(p.rest), s, LAMBDA n : Ok(n.rest, p.val)))

\* delimited(space1, key_value, newline)
property_line(s) ==
    Then(space1(s), s, LAMBDA w :
    Then(key_value(w.rest), s, LAMBDA p :
    Then(newline(p.rest), s, LAMBDA n : Ok(n.rest, p.val))))

\* The loop of many1(delimited(space1, key_value, newline)): it stops at the
\* first line that fails and keeps what it has.
RECURSIVE properties0(_, _)
properties0(s, acc) ==
    Bind(property_line(s), LAMBDA p :
        IF p.ok THEN properties0(p.rest, Append(acc, p.val)) ELSE Ok(s, acc))

\* many1(..): at least one line.
properties(s) ==
    Bind(properties0(s, <<>>), LAMBDA p : IF p.val = <<>> THEN Fail(s) ELSE p)

(***************************************************************************)
(* Option<T> and the unknown-key map.                                      *)
(***************************************************************************)
Some(x) == [some |-> TRUE, v |-> x]

NoneNum == [some |-> FALSE, v |-> 0]

NoneSeq == [some |-> FALSE, v |-> <<>>]

NoneMap == [some |-> FALSE, v |-> <<>>]

MapInsert(m, k, v) == [x \in (DOMAIN m) \cup {k} |-> IF x = k THEN v ELSE m[x]]

\* An insertion that keeps the value a key already has.
UnkInsertFirst(u, k, v) == IF k \in DOMAIN u.v THEN u ELSE Some(MapInsert(u.v, k, v))

\* The Unk arm of both folds: insert into the map, creating it when absent.
UnkInsert(u, k, v) == Some(MapInsert(u.v, k, v))

(***************************************************************************)
(* metadata.rs: Header                                                     *)
(***************************************************************************)
SupportedVersion == [m |-> 4, e |-> 0]

\* A header that takes any version.
VersionAny(ver) == TRUE

RECURSIVE Pow2(_)
Pow2(n) == IF n = 0 THEN 1 ELSE 2 * Pow2(n - 1)

\* `if version != 4.0 { return Err(..) }` on the f32 of KeyValue::Version.
\* The f32 nearest to a decimal x is 4.0 exactly when
\* 4 - 2^-23 <= x <= 4 + 2^-22 (the neighbours of 4.0 are 4 - 2^-22 and
\* 4 + 2^-21, and a tie goes to 4.0, whose mantissa is even).  With
\* d = m - 4 * 10^e that is -d * 2^23 <= 10^e and d * 2^22 <= 10^e; d is
\* bounded first so that the products stay within 32 bits.
VersionSupported(ver) ==
    /\ ver.e <= 8
    /\ Bind(ver.m - 4 * Pow10(ver.e), LAMBDA d :
            /\ d \in -100..100
            /\ d * Pow2(22) <= Pow10(ver.e)
            /\ (-d) * Pow2(23) <= Pow10(ver.e))

\* The `x => return Err(.. not allowed here)` arm of Header::try_from.
HeaderNotAllowed(acc, kv) == [acc EXCEPT !.ok = FALSE]

\* The body of the `for value in kvs` loop of Header::try_from, on the
\* accumulator [ok, width, height, unk].
HeaderFold(acc, kv) ==
    CASE kv.kind = "Width"  -> [acc EXCEPT !.width = Some(kv.arg.n)]
      [] kv.kind = "Height" -> [acc EXCEPT !.height = Some(kv.arg.n)]
      [] kv.kind = "Unk"    -> [acc EXCEPT !.unk = UnkInsert(acc.unk, kv.name, kv.arg)]
      [] OTHER              -> HeaderNotAllowed(acc, kv)

RECURSIVE HeaderLoop(_, _)
HeaderLoop(acc, kvs) ==
    IF kvs = <<>> \/ ~acc.ok THEN acc
    ELSE HeaderLoop(HeaderFold(acc, Head(kvs)), Tail(kvs))

\* `Ok(Header { version, width: width.ok_or_else(..)?, height: .., unk })`
HeaderFinish(ver, acc) ==
    IF ~acc.ok \/ ~acc.width.some \/ ~acc.height.some THEN No
    ELSE Yes([version |-> ver, width |-> acc.width.v,
              height |-> acc.height.v, unk |-> acc.unk])

\* impl TryFrom<(KeyValue, Vec<KeyValue>)> for Header: [ok, val].  A first
\* element that is not a Version is unreachable!(); past the version check
\* the f32 held is 4.0.
HeaderTryFrom(first, kvs) ==
    IF first.kind # "Version" THEN Panic
    ELSE IF ~VersionSupported(first.arg.f) THEN No
    ELSE HeaderFinish(SupportedVersion,
                      HeaderLoop([ok |-> TRUE, width |-> NoneNum, height |-> NoneNum,
                                  unk |-> NoneMap], kvs))

\* pub fn header: the verify guard keeps every other variant from try_from.
header(s) ==
    Then(intro_line(s), s, LAMBDA v :
        IF v.val.kind # "Version" THEN Fail(s)
        ELSE Then(properties(v.rest), s, LAMBDA p :
             Then(HeaderTryFrom(v.val, p.val), s, LAMBDA h : Ok(p.rest, h.val))))

(***************************************************************************)
(* state.rs: State                                                         *)
(***************************************************************************)
DefaultFrames == 1

HotspotLen == 3

\* A length test that takes the first three of a longer list.
HotspotAtLeast(l) == Len(l) >= HotspotLen

\* `if h.len() == 3`
HotspotOk(l) == Len(l) = HotspotLen

\* An arm that skips the pair instead of failing.
StateSkip(acc, kv) == acc

\* The `x => return Err(.. not allowed here)` arm of State::try_from.
StateNotAllowed(acc, kv) == [acc EXCEPT !.ok = FALSE]

\* The body of the `for kv in kvs` loop of State::try_from.
StateFold(acc, kv) ==
    CASE kv.kind = "Dirs"     -> [acc EXCEPT !.dirs = Some(kv.dirs)]
      [] kv.kind = "Frames"   -> [acc EXCEPT !.frames = kv.arg.n]
      [] kv.kind = "Delay"    -> [acc EXCEPT !.delays = Some(kv.arg.l)]
      [] kv.kind = "Loop"     -> [acc EXCEPT !.loop_flag = Some(kv.arg.n)]
      [] kv.kind = "Rewind"   -> [acc EXCEPT !.rewind = Some(kv.arg.n)]
      [] kv.kind = "Movement" -> [acc EXCEPT !.movement = Some(kv.arg.n)]
      [] kv.kind = "Hotspot"  ->
            IF HotspotOk(kv.arg.l)
            THEN [acc EXCEPT !.hotspot = Some(SubSeq(kv.arg.l, 1, HotspotLen))]
            ELSE [acc EXCEPT !.ok = FALSE]
      [] kv.kind = "Unk"      -> [acc EXCEPT !.unk = UnkInsert(acc.unk, kv.name, kv.arg)]
      [] OTHER                -> StateNotAllowed(acc, kv)

RECURSIVE StateLoop(_, _)
StateLoop(acc, kvs) ==
    IF kvs = <<>> \/ ~acc.ok THEN acc
    ELSE StateLoop(StateFold(acc, Head(kvs)), Tail(kvs))

StateOf(name, acc) ==
    [name |-> name, dirs |-> acc.dirs.v, frames |-> acc.frames,
     delays |-> acc.delays, loop_flag |-> acc.loop_flag,
     rewind |-> acc.rewind, movement |-> acc.movement,
     hotspot |-> acc.hotspot, unk |-> acc.unk]

\* A final step that lets dirs default to One.
StateFinishDefaultDirs(name, acc) ==
    IF ~acc.ok THEN No
    ELSE Yes(StateOf(name, [acc EXCEPT !.dirs = IF acc.dirs.some THEN acc.dirs
                                                  ELSE Some("One")]))

\* A final step that wants one delay per frame.
StateFinishStrict(name, acc) ==
    IF ~acc.ok \/ ~acc.dirs.some THEN No
    ELSE IF acc.delays.some /\ Len(acc.delays.v) # acc.frames THEN No
    ELSE Yes(StateOf(name, acc))

\* `Ok(State { name, dirs: dirs.ok_or_else(..)?, frames, .. })`
StateFinish(name, acc) ==
    IF ~acc.ok \/ ~acc.dirs.some THEN No ELSE Yes(StateOf(name, acc))

\* impl TryFrom<(KeyValue, Vec<KeyValue>)> for State: [ok, val].  A first
\* element that is not a State is unreachable!().
StateTryFrom(first, kvs) ==
    IF first.kind # "State" THEN Panic
    ELSE StateFinish(first.arg.s,
                     StateLoop([ok |-> TRUE, dirs |-> [some |-> FALSE, v |-> "none"],
                                frames |-> DefaultFrames, delays |-> NoneSeq,
                                loop_flag |-> NoneNum, rewind |-> NoneNum,
                                movement |-> NoneNum, hotspot |-> NoneSeq,
                                unk |-> NoneMap], kvs))

\* pub fn state: the verify guard keeps every other variant from try_from.
state(s) ==
    Then(intro_line(s), s, LAMBDA n :
        IF n.val.kind # "State" THEN Fail(s)
        ELSE Then(properties(n.rest), s, LAMBDA p :
             Then(StateTryFrom(n.val, p.val), s, LAMBDA t : Ok(p.rest, t.val))))

(***************************************************************************)
(* metadata.rs: the document                                               *)
(***************************************************************************)
BeginTag == <<"#"," ","B","E","G","I","N"," ","D","M","I">>

EndTag == <<"#"," ","E","N","D"," ","D","M","I">>

\* terminated(tag("# BEGIN DMI"), newline)
begin_dmi(s) ==
    Then(tag(BeginTag, s), s, LAMBDA t :
    Then(newline(t.rest), s, LAMBDA n : Ok(n.rest, t.val)))

\* terminated(tag("# END DMI"), multispace0)
end_dmi(s) ==
    Then(tag(EndTag, s), s, LAMBDA t :
    Then(multispace0(t.rest), s, LAMBDA w : Ok(w.rest, t.val)))

\* A many0 that pushes each state at the front.
RECURSIVE states0Front(_, _)
states0Front(s, acc) ==
    Bind(state(s), LAMBDA p :
        IF p.ok THEN states0Front(p.rest, <<p.val>> \o acc) ELSE Ok(s, acc))

\* many0(state)
RECURSIVE states0(_, _)
states0(s, acc) ==
    Bind(state(s), LAMBDA p :
        IF p.ok THEN states0(p.rest, Append(acc, p.val)) ELSE Ok(s, acc))

\* delimited(begin_dmi, pair(header, many0(state)), end_dmi)
document(s) ==
    Then(begin_dmi(s), s, LAMBDA b :
    Then(header(b.rest), s, LAMBDA h :
    Then(states0(h.rest, <<>>), s, LAMBDA t :
    Then(end_dmi(t.rest), s, LAMBDA e :
        Ok(e.rest, [header |-> h.val, states |-> t.val])))))

\* A wrapper that lets leftover input through.
some_consuming(p) == p

\* all_consuming(p): p, then the remaining input must be empty.
all_consuming(p) == IF p.ok /\ p.rest # <<>> THEN Fail(<<>>) ELSE p

\* pub fn metadata
metadata(s) == Then(all_consuming(document(s)), s, LAMBDA p : Ok(p.rest, p.val))

\* Metadata::load: Result<Metadata, DmiError>.
MetadataLoad(s) == Bind(metadata(s), LAMBDA p : IF p.ok THEN Yes(p.val) ELSE No)

(***************************************************************************)
(* Inputs.  A document is described by `doc` (its lines as key/value       *)
(* pairs) and written out as `text` in the encoder's form, the form of the *)
(* documents in the repository's tests; the parsers read `text` only.      *)
(***************************************************************************)
RECURSIVE FormatNat(_)
FormatNat(n) ==
    IF n < 10 THEN <<DigitChars[n + 1]>>
    ELSE FormatNat(n \div 10) \o <<DigitChars[(n % 10) + 1]>>

RECURSIVE ZeroPad(_, _)
ZeroPad(ds, w) == IF Len(ds) >= w THEN ds ELSE ZeroPad(<<"0">> \o ds, w)

\* A float as text: "5.4"; a whole number as "4.0" (point) or "4" (no point).
FormatFloat(x, point) ==
    IF x.e = 0
    THEN FormatNat(x.m) \o (IF point THEN <<".", "0">> ELSE <<>>)
    ELSE FormatNat(x.m \div Pow10(x.e)) \o <<".">>
            \o ZeroPad(FormatNat(x.m % Pow10(x.e)), x.e)

RECURSIVE FormatList(_)
FormatList(l) ==
    IF Len(l) = 1 THEN FormatFloat(l[1], FALSE)
    ELSE FormatFloat(l[1], FALSE) \o <<",">> \o FormatList(Tail(l))

FormatValue(v) ==
    CASE v.tag = "Int"    -> FormatNat(v.n)
      [] v.tag = "Float"  -> FormatFloat(v.f, TRUE)
      [] v.tag = "String" -> <<Quote>> \o v.s \o <<Quote>>
      [] v.tag = "List"   -> FormatList(v.l)

\* One line of a document: a key and a value.
P(k, v) == [key |-> k, value |-> v]

FormatPair(p) == p.key \o Sep \o FormatValue(p.value)

RECURSIVE FormatProps(_, _)
FormatProps(ind, ps) ==
    IF ps = <<>> THEN <<>>
    ELSE ind \o FormatPair(Head(ps)) \o <<"\n">> \o FormatProps(ind, Tail(ps))

\* A block: its introducer line, then its indented property lines.
FormatBlock(b) == FormatPair(b.intro) \o <<"\n">> \o FormatProps(b.indent, b.props)

RECURSIVE FormatBlocks(_)
FormatBlocks(bs) ==
    IF bs = <<>> THEN <<>> ELSE FormatBlock(Head(bs)) \o FormatBlocks(Tail(bs))

RECURSIVE SeqsUpTo(_, _)
SeqsUpTo(S, n) ==
    IF n = 0 THEN {<<>>}
    ELSE LET T == SeqsUpTo(S, n - 1)
         IN  T \cup {Append(q, x) : q \in {y \in T : Len(y) = n - 1}, x \in S}

Chars_future == <<"f","u","t","u","r","e">>
Chars_zed    == <<"z","e","d">>
Chars_Dirs   == <<"D","i","r","s">>
Chars_lmao   == <<"l","m","a","o">>
Chars_meow   == <<"m","e","o","w">>

KnownKeys ==
    {Chars_version, Chars_width, Chars_height, Chars_state, Chars_dirs, Chars_frames,
     Chars_delay, Chars_loop, Chars_rewind, Chars_movement, Chars_hotspot}

IntKeys == {Chars_width, Chars_height, Chars_frames, Chars_loop, Chars_rewind, Chars_movement}

ListKeys == {Chars_delay, Chars_hotspot}

UnknownKeys == {Chars_future, Chars_zed, Chars_Dirs}

Indents == {<<" ">>, <<" ", " ", " ", " ">>, <<"\t">>}

(***************************************************************************)
(* The operations.  op records which parser was applied to text, res its   *)
(* result.                                                                 *)
(***************************************************************************)
KeyValueStep ==
    /\ op = "idle"
    /\ op' = "key_value"
    /\ res' = key_value(text)
    /\ UNCHANGED <<doc, text>>

HeaderStep ==
    /\ op = "idle"
    /\ op' = "header"
    /\ res' = header(text)
    /\ UNCHANGED <<doc, text>>

StateStep ==
    /\ op = "idle"
    /\ op' = "state"
    /\ res' = state(text)
    /\ UNCHANGED <<doc, text>>

\* The KeyValue a line of the document stands for, and those of its lines.
KeyValueOf(p) == Validate(KeyOf(p.key), p.value).val

KeyValuesOf(ps) == [i \in DOMAIN ps |-> KeyValueOf(ps[i])]

\* Header::try_from called on the block's pairs, without header's guard.
HeaderTryFromStep ==
    /\ op = "idle"
    /\ op' = "Header::try_from"
    /\ res' = HeaderTryFrom(KeyValueOf(doc.intro), KeyValuesOf(doc.props))
    /\ UNCHANGED <<doc, text>>

\* State::try_from called on the block's pairs, without state's guard.
StateTryFromStep ==
    /\ op = "idle"
    /\ op' = "State::try_from"
    /\ res' = StateTryFrom(KeyValueOf(doc.intro), KeyValuesOf(doc.props))
    /\ UNCHANGED <<doc, text>>

MetadataStep ==
    /\ op = "idle"
    /\ op' = "metadata"
    /\ res' = metadata(text)
    /\ UNCHANGED <<doc, text>>

LoadStep ==
    /\ op = "idle"
    /\ op' = "load"
    /\ res' = MetadataLoad(text)
    /\ UNCHANGED <<doc, text>>

Start(d, t) ==
    /\ doc = d
    /\ text = t
    /\ op = "idle"
    /\ res = Fail(<<>>)

(***************************************************************************)
(* SpecKV: key_value on one `key = value` text, every key with every       *)
(* value shape.                                                            *)
(***************************************************************************)
MaxListLen == 4

ListElems == {F(1, 0), F(54, 1)}

Lists(n) == {l \in SeqsUpTo(ListElems, n) : Len(l) >= 2}

KVValues ==
    {VInt(n) : n \in {0, 1, 2, 4, 8, 32}}
      \cup {VFloat(F(40, 1)), VFloat(F(15, 1))}
      \cup {VString(<<>>), VString(Chars_meow)}
      \cup {VList(l) : l \in Lists(MaxListLen)}

InitKV ==
    \E k \in KnownKeys \cup UnknownKeys, v \in KVValues :
        Start(P(k, v), FormatPair(P(k, v)))

NextKV == KeyValueStep

SpecKV == InitKV /\ [][NextKV]_vars

(***************************************************************************)
(* SpecBlock: header and state on one block.                               *)
(***************************************************************************)
MaxMiddle == 2

StateProps ==
    {P(Chars_dirs, VInt(1)), P(Chars_dirs, VInt(8)),
     P(Chars_frames, VInt(2)), P(Chars_frames, VInt(3)),
     P(Chars_delay, VList(<<F(1, 0), F(54, 1)>>)),
     P(Chars_delay, VList(<<F(2, 0), F(1, 0), F(3, 0)>>)),
     P(Chars_loop, VInt(1)), P(Chars_loop, VInt(0)),
     P(Chars_rewind, VInt(1)), P(Chars_rewind, VInt(0)),
     P(Chars_movement, VInt(1)), P(Chars_movement, VInt(0)),
     P(Chars_hotspot, VList(<<F(12, 0), F(13, 0), F(0, 0)>>)),
     P(Chars_hotspot, VList(<<F(1, 0), F(2, 0), F(3, 0)>>)),
     P(Chars_hotspot, VList(<<F(7, 0), F(8, 0)>>)),
     P(Chars_hotspot, VList(<<F(1, 0), F(2, 0), F(3, 0), F(4, 0)>>)),
     P(Chars_future, VString(Chars_lmao)), P(Chars_future, VInt(2)),
     P(Chars_zed, VFloat(F(15, 1))),
     P(Chars_version, VFloat(F(40, 1))), P(Chars_state, VString(<<"b">>)),
     P(Chars_width, VInt(32)), P(Chars_height, VInt(32))}

HeaderProps ==
    {P(Chars_width, VInt(32)), P(Chars_width, VInt(16)),
     P(Chars_height, VInt(32)), P(Chars_height, VInt(8)),
     P(Chars_future, VString(Chars_lmao)), P(Chars_future, VInt(2)),
     P(Chars_zed, VFloat(F(15, 1))),
     P(Chars_version, VFloat(F(40, 1))), P(Chars_state, VString(<<"b">>)),
     P(Chars_dirs, VInt(4)), P(Chars_frames, VInt(2)),
     P(Chars_delay, VList(<<F(1, 0), F(54, 1)>>)),
     P(Chars_loop, VInt(1)), P(Chars_rewind, VInt(0)), P(Chars_movement, VInt(1)),
     P(Chars_hotspot, VList(<<F(12, 0), F(13, 0), F(0, 0)>>))}

\* The required lines of each kind of block, put before or after the others.
StateFrames == {<<>>, <<P(Chars_dirs, VInt(4))>>}

HeaderFrames == {<<>>, <<P(Chars_width, VInt(32)), P(Chars_height, VInt(32))>>}

StateIntros == {P(Chars_state, VString(<<"a">>))}

\* Version lines: 4.0 and 4.00000001, whose f32 is 4.0, and 4.0000003 and
\* 3.0, whose f32 is not.
FourAsF32 == {F(40, 1), F(400000001, 8)}

NotFourAsF32 == {F(40000003, 7), F(30, 1)}

HeaderIntros == {P(Chars_version, VFloat(x)) : x \in FourAsF32 \cup NotFourAsF32}

Block(i, ps, ind) == [intro |-> i, props |-> ps, indent |-> ind]

\* Blocks of at most n lines between the required ones.
BlockDocs(n) ==
    {Block(i, a \o m \o b, <<" ">>) :
        i \in StateIntros, a \in StateFrames, b \in StateFrames,
        m \in SeqsUpTo(StateProps, n)}
    \cup
    {Block(i, a \o m \o b, <<" ">>) :
        i \in HeaderIntros, a \in HeaderFrames, b \in HeaderFrames,
        m \in SeqsUpTo(HeaderProps, n)}

InitBlock == \E b \in BlockDocs(MaxMiddle) : Start(b, FormatBlock(b))

NextBlock == HeaderStep \/ StateStep \/ HeaderTryFromStep \/ StateTryFromStep

SpecBlock == InitBlock /\ [][NextBlock]_vars

(***************************************************************************)
(* What a document says, read off doc (never off text).                    *)
(***************************************************************************)
HeaderPermitted == {Chars_width, Chars_height}

StatePermitted ==
    {Chars_dirs, Chars_frames, Chars_delay, Chars_loop, Chars_rewind,
     Chars_movement, Chars_hotspot}

\* The value shape the key-value table gives each known key.
ShapeOf(k) ==
    CASE k = Chars_version -> "Float"
      [] k \in IntKeys     -> "Int"
      [] k = Chars_state   -> "String"
      [] k \in ListKeys    -> "List"
      [] k = Chars_dirs    -> "Int"

\* The KeyValue variant of each known key.
KindOf(k) ==
    CASE k = Chars_version  -> "Version"
      [] k = Chars_width    -> "Width"
      [] k = Chars_height   -> "Height"
      [] k = Chars_state    -> "State"
      [] k = Chars_dirs     -> "Dirs"
      [] k = Chars_frames   -> "Frames"
      [] k = Chars_delay    -> "Delay"
      [] k = Chars_loop     -> "Loop"
      [] k = Chars_rewind   -> "Rewind"
      [] k = Chars_movement -> "Movement"
      [] k = Chars_hotspot  -> "Hotspot"

DirsOf(n) == CASE n = 1 -> "One" [] n = 4 -> "Four" [] n = 8 -> "Eight"

Accepted(p) ==
    \/ p.key \notin KnownKeys
    \/ /\ p.key \in KnownKeys
       /\ p.value.tag = ShapeOf(p.key)
       /\ p.key = Chars_dirs => p.value.n \in {1, 4, 8}

Has(ps, k) == \E i \in DOMAIN ps : ps[i].key = k

Last(ps, k) ==
    LET i == CHOOSE j \in DOMAIN ps :
                 /\ ps[j].key = k
                 /\ \A h \in DOMAIN ps : ps[h].key = k => h <= j
    IN  ps[i].value

UnknownNames(ps) == {ps[i].key : i \in DOMAIN ps} \ KnownKeys

BadHotspot(p) == p.key = Chars_hotspot /\ Len(p.value.l) # 3

(***************************************************************************)
(* Claims about key_value (SpecKV).                                        *)
(***************************************************************************)
\* C5: key_value accepts a known key with exactly one value shape (version:
\* Float; width, height, frames, loop, rewind, movement: Int; state: String;
\* delay, hotspot: List of any length; dirs: Int 1, 4 or 8, giving One, Four,
\* Eight) and rejects every other shape; an unrecognised key is accepted with
\* any value and yields Unk(name, value) unchanged.
C5_KeyValueShapes ==
    op = "key_value" =>
        /\ res.ok <=> Accepted(doc)
        /\ res.ok => res.rest = <<>>
        /\ (res.ok /\ doc.key \notin KnownKeys) =>
              res.val = KeyValueUnk(doc.key, doc.value)
        /\ (res.ok /\ doc.key = Chars_dirs) =>
              res.val = KeyValueDirs(DirsOf(doc.value.n))
        /\ (res.ok /\ doc.key \in KnownKeys \ {Chars_dirs}) =>
              res.val = KeyValue(KindOf(doc.key), doc.value)

C5_Witness ==
    /\ op = "key_value"
    /\ doc.key = Chars_dirs
    /\ doc.value = VInt(2)
    /\ ~res.ok

(***************************************************************************)
(* Claims about the block assemblers (SpecBlock).  Every property line of  *)
(* a SpecBlock document is a pair key_value accepts.                       *)
(***************************************************************************)
HeaderIntroOk ==
    /\ doc.intro.key = Chars_version
    /\ doc.intro.value.tag = "Float"
    /\ doc.intro.value.f \in FourAsF32

StateIntroOk == doc.intro.key = Chars_state

HeaderOtherwiseValid ==
    /\ HeaderIntroOk
    /\ \A i \in DOMAIN doc.props :
          doc.props[i].key \in HeaderPermitted \/ doc.props[i].key \notin KnownKeys

StateOtherwiseValid ==
    /\ StateIntroOk
    /\ \A i \in DOMAIN doc.props :
          /\ doc.props[i].key \in StatePermitted \/ doc.props[i].key \notin KnownKeys
          /\ ~BadHotspot(doc.props[i])

\* C3: with everything else valid, header assembly succeeds exactly when a
\* width and a height line appear, state assembly exactly when a dirs line
\* appears; every other field is optional: frames absent gives 1, and delays,
\* loop_flag, rewind, movement, hotspot and unknown absent give no value.
C3_RequiredFields ==
    /\ (op = "header" /\ HeaderOtherwiseValid) =>
          /\ res.ok <=> (Has(doc.props, Chars_width) /\ Has(doc.props, Chars_height))
          /\ (res.ok /\ UnknownNames(doc.props) = {}) => ~res.val.unk.some
    /\ (op = "state" /\ StateOtherwiseValid) =>
          /\ res.ok <=> Has(doc.props, Chars_dirs)
          /\ res.ok =>
                /\ ~Has(doc.props, Chars_frames) => res.val.frames = 1
                /\ ~Has(doc.props, Chars_delay) => ~res.val.delays.some
                /\ ~Has(doc.props, Chars_loop) => ~res.val.loop_flag.some
                /\ ~Has(doc.props, Chars_rewind) => ~res.val.rewind.some
                /\ ~Has(doc.props, Chars_movement) => ~res.val.movement.some
                /\ ~Has(doc.props, Chars_hotspot) => ~res.val.hotspot.some
                /\ UnknownNames(doc.props) = {} => ~res.val.unk.some

\* A state block with only a dirs line assembles; a header with a width but
\* no height does not.
C3_Witness ==
    \/ /\ op = "state"
       /\ StateOtherwiseValid
       /\ Len(doc.props) = 1
       /\ Has(doc.props, Chars_dirs)
       /\ res.ok
       /\ res.val.frames = 1
    \/ /\ op = "header"
       /\ HeaderOtherwiseValid
       /\ Has(doc.props, Chars_width)
       /\ ~Has(doc.props, Chars_height)
       /\ ~res.ok

\* C8: key_value takes a hotspot list of any length; state assembly fails on
\* a block holding a hotspot line whose list is not of length 3, even when a
\* later hotspot line has length 3; on success hotspot is present exactly
\* when a hotspot line appeared and holds the 3 values of the last one.
C8_HotspotLength ==
    /\ \A i \in DOMAIN doc.props :
          doc.props[i].key = Chars_hotspot =>
              LET r == key_value(FormatPair(doc.props[i]))
              IN  r.ok /\ r.val = KeyValue("Hotspot", doc.props[i].value)
    /\ (op = "state" /\ \E i \in DOMAIN doc.props : BadHotspot(doc.props[i])) => ~res.ok
    /\ (op = "state" /\ res.ok) =>
          /\ res.val.hotspot.some <=> Has(doc.props, Chars_hotspot)
          /\ Has(doc.props, Chars_hotspot) =>
                /\ res.val.hotspot.v = Last(doc.props, Chars_hotspot).l
                /\ Len(res.val.hotspot.v) = 3

\* A dirs line, a hotspot of length 2, then a hotspot of length 3: rejected.
C8_Witness ==
    /\ op = "state"
    /\ StateIntroOk
    /\ Len(doc.props) = 3
    /\ doc.props[1].key = Chars_dirs
    /\ BadHotspot(doc.props[2])
    /\ doc.props[3].key = Chars_hotspot
    /\ Len(doc.props[3].value.l) = 3
    /\ ~res.ok

UnknownAsRead(u) ==
    /\ u.some <=> UnknownNames(doc.props) # {}
    /\ u.some =>
          /\ DOMAIN u.v = UnknownNames(doc.props)
          /\ \A k \in UnknownNames(doc.props) : u.v[k] = Last(doc.props, k)

\* C9: assembly is a left-to-right fold with last write wins: on success each
\* known field holds the value of the last line with its key, and the unknown
\* mapping is absent when no unrecognised key appeared and otherwise holds
\* exactly the unrecognised names, each with the value of its last line.
C9_LastWriteWins ==
    /\ (op = "header" /\ res.ok) =>
          /\ res.val.width = Last(doc.props, Chars_width).n
          /\ res.val.height = Last(doc.props, Chars_height).n
          /\ UnknownAsRead(res.val.unk)
    /\ (op = "state" /\ res.ok) =>
          /\ res.val.dirs = DirsOf(Last(doc.props, Chars_dirs).n)
          /\ Has(doc.props, Chars_frames) =>
                res.val.frames = Last(doc.props, Chars_frames).n
          /\ Has(doc.props, Chars_delay) =>
                res.val.delays = Some(Last(doc.props, Chars_delay).l)
          /\ Has(doc.props, Chars_loop) =>
                res.val.loop_flag = Some(Last(doc.props, Chars_loop).n)
          /\ Has(doc.props, Chars_rewind) =>
                res.val.rewind = Some(Last(doc.props, Chars_rewind).n)
          /\ Has(doc.props, Chars_movement) =>
                res.val.movement = Some(Last(doc.props, Chars_movement).n)
          /\ Has(doc.props, Chars_hotspot) =>
                res.val.hotspot = Some(Last(doc.props, Chars_hotspot).l)
          /\ UnknownAsRead(res.val.unk)

\* Two lines with the same unrecognised key and different values, and two
\* frames lines, in blocks that assemble.
C9_Witness ==
    /\ op = "state"
    /\ res.ok
    /\ \E i, j \in DOMAIN doc.props :
          /\ i < j
          /\ doc.props[i].key = doc.props[j].key
          /\ doc.props[i].key \in {Chars_future, Chars_frames}
          /\ doc.props[i].value # doc.props[j].value

\* C10: a line whose key is not permitted in its block makes the block fail:
\* a header takes only width, height and unrecognised keys, a state only
\* dirs, frames, delay, loop, rewind, movement, hotspot and unrecognised
\* keys; a header must open with a version pair and a state with a state
\* pair.
C10_NotPermitted ==
    /\ (op = "header" /\ doc.intro.key # Chars_version) => ~res.ok
    /\ (op = "state" /\ doc.intro.key # Chars_state) => ~res.ok
    /\ (op = "header" /\ \E i \in DOMAIN doc.props :
                            doc.props[i].key \in KnownKeys \ HeaderPermitted) => ~res.ok
    /\ (op = "state" /\ \E i \in DOMAIN doc.props :
                            doc.props[i].key \in KnownKeys \ StatePermitted) => ~res.ok

\* A state block with its dirs line and a width line is rejected.
C10_Witness ==
    /\ op = "state"
    /\ StateIntroOk
    /\ Has(doc.props, Chars_dirs)
    /\ Has(doc.props, Chars_width)
    /\ \A i \in DOMAIN doc.props : doc.props[i].key \in {Chars_dirs, Chars_width}
    /\ ~res.ok

(***************************************************************************)
(* SpecDelay: state on blocks with a dirs line, a delay list and, before   *)
(* or after it, a frames line or none, indented by a space, a tab or four  *)
(* spaces; the next block's introducer follows, as in the tests of         *)
(* state.rs.                                                               *)
(***************************************************************************)
MaxFrames == 4

Chars_coffee ==
    <<"b","l","u","e","s","p","a","c","e","_","c","o","f","f","e","e">>

EvilDelay == <<F(1, 0), F(2, 0), F(54, 1), F(3, 0)>>

DelayLists == Lists(MaxListLen) \cup {EvilDelay}

NextIntro == FormatPair(P(Chars_state, VString(<<".", ".", ".">>)))

DelayProps ==
    {<<P(Chars_dirs, VInt(d)), P(Chars_delay, VList(l))>> :
        d \in {1, 4, 8}, l \in DelayLists}
    \cup
    {<<P(Chars_dirs, VInt(d)), P(Chars_frames, VInt(n)), P(Chars_delay, VList(l))>> :
        d \in {1, 4, 8}, n \in 0..MaxFrames, l \in DelayLists}
    \cup
    {<<P(Chars_dirs, VInt(d)), P(Chars_delay, VList(l)), P(Chars_frames, VInt(n))>> :
        d \in {1, 4, 8}, n \in 0..MaxFrames, l \in DelayLists}

DelayDocs ==
    {Block(P(Chars_state, VString(Chars_coffee)), ps, ind) :
        ps \in DelayProps, ind \in Indents}

InitDelay == \E b \in DelayDocs : Start(b, FormatBlock(b) \o NextIntro)

NextDelay == StateStep

SpecDelay == InitDelay /\ [][NextDelay]_vars

\* C6: the state parser fails on a block that has a delay line and no frames
\* line.
C6_DelayWithoutFrames ==
    (op = "state" /\ Has(doc.props, Chars_delay) /\ ~Has(doc.props, Chars_frames)) =>
        ~res.ok

\* C7: the number of delay values is never checked against frames: a block
\* with a valid dirs, frames = n and a delay list of m values parses for
\* every n and m, and the State has frames = n and the m delays in order.
C7_DelaysUnchecked ==
    (op = "state" /\ Has(doc.props, Chars_frames)) =>
        /\ res.ok
        /\ res.rest = NextIntro
        /\ res.val.name = Chars_coffee
        /\ res.val.frames = Last(doc.props, Chars_frames).n
        /\ res.val.delays = Some(Last(doc.props, Chars_delay).l)

\* frames = 2 with three delay values.
C7_Witness ==
    /\ op = "state"
    /\ Has(doc.props, Chars_frames)
    /\ Last(doc.props, Chars_frames).n = 2
    /\ Len(Last(doc.props, Chars_delay).l) = 3
    /\ res.ok
    /\ Len(res.val.delays.v) = 3

(***************************************************************************)
(* Spec: metadata and Metadata::load on whole documents: text before the   *)
(* introducer or none, the introducer line, a header block, state blocks,  *)
(* and a terminator with what follows it.                                  *)
(***************************************************************************)
MaxStates == 2

WH == <<P(Chars_width, VInt(32)), P(Chars_height, VInt(32))>>

Ind == <<" ", " ", " ", " ">>

HeaderBlocks ==
    {Block(P(Chars_version, VFloat(F(40, 1))), WH, Ind),
     Block(P(Chars_version, VFloat(F(40, 1))),
           WH \o <<P(Chars_future, VString(Chars_lmao))>>, Ind),
     Block(P(Chars_version, VFloat(F(30, 1))), WH, Ind),
     Block(P(Chars_version, VFloat(F(400000001, 8))), WH, Ind),
     Block(P(Chars_version, VFloat(F(40000003, 7))), WH, Ind),
     Block(P(Chars_version, VFloat(F(40, 1))), <<P(Chars_width, VInt(32))>>, Ind),
     Block(P(Chars_version, VFloat(F(40, 1))), WH \o <<P(Chars_dirs, VInt(4))>>, Ind),
     Block(P(Chars_version, VFloat(F(40, 1))),
           <<P(Chars_width, VString(<<"x">>)), P(Chars_height, VInt(32))>>, Ind),
     Block(P(Chars_state, VString(<<"a">>)), <<P(Chars_dirs, VInt(1))>>, Ind)}

StateBlocks ==
    {Block(P(Chars_state, VString(<<"a">>)),
           <<P(Chars_dirs, VInt(4)), P(Chars_frames, VInt(2)),
             P(Chars_delay, VList(<<F(12, 1), F(1, 0)>>))>>, Ind),
     Block(P(Chars_state, VString(<<"b">>)),
           <<P(Chars_dirs, VInt(1)), P(Chars_frames, VInt(1))>>, Ind),
     Block(P(Chars_state, VString(<<"a">>)), <<P(Chars_dirs, VInt(8))>>, Ind),
     Block(P(Chars_state, VString(<<"c">>)), <<P(Chars_frames, VInt(2))>>, Ind),
     Block(P(Chars_state, VString(<<"c">>)),
           <<P(Chars_dirs, VInt(1)),
             P(Chars_hotspot, VList(<<F(7, 0), F(8, 0)>>))>>, Ind),
     Block(P(Chars_state, VString(<<"c">>)),
           <<P(Chars_dirs, VInt(1)), P(Chars_width, VInt(32))>>, Ind),
     Block(P(Chars_state, VString(<<"c">>)),
           <<P(Chars_dirs, VInt(1)), P(Chars_dirs, VInt(2))>>, Ind),
     Block(P(Chars_state, VString(<<"c">>)), <<>>, Ind),
     Block(P(Chars_version, VFloat(F(40, 1))), <<P(Chars_dirs, VInt(1))>>, Ind)}

Tails ==
    {EndTag, EndTag \o <<"\n">>, EndTag \o <<" ", "\t", "\r", "\n">>,
     EndTag \o <<"\n", "x">>, EndTag \o <<"x">>, <<>>}

Leads == {<<>>, <<"\n">>, <<"x">>}

Edges == {<<<<>>, t>> : t \in Tails} \cup {<<l, EndTag>> : l \in Leads}

\* Documents of at most n state blocks.
Docs(n) ==
    {[lead |-> e[1], header |-> h, states |-> ss, tail |-> e[2]] :
        e \in Edges, h \in HeaderBlocks, ss \in SeqsUpTo(StateBlocks, n)}

FormatDoc(d) ==
    d.lead \o BeginTag \o <<"\n">> \o FormatBlock(d.header)
           \o FormatBlocks(d.states) \o d.tail

Init == \E d \in Docs(MaxStates) : Start(d, FormatDoc(d))

Next == MetadataStep \/ LoadStep

Spec == Init /\ [][Next]_vars

AllAccepted(b) == \A i \in DOMAIN b.props : Accepted(b.props[i])

\* A header block as the format wants it.
HeaderValid(b) ==
    /\ b.intro.key = Chars_version
    /\ b.intro.value.tag = "Float"
    /\ b.intro.value.f \in FourAsF32
    /\ b.props # <<>>
    /\ AllAccepted(b)
    /\ \A i \in DOMAIN b.props :
          b.props[i].key \in HeaderPermitted \/ b.props[i].key \notin KnownKeys
    /\ Has(b.props, Chars_width)
    /\ Has(b.props, Chars_height)

\* A state block as the format wants it.
StateValid(b) ==
    /\ b.intro.key = Chars_state
    /\ b.intro.value.tag = "String"
    /\ b.props # <<>>
    /\ AllAccepted(b)
    /\ \A i \in DOMAIN b.props :
          /\ b.props[i].key \in StatePermitted \/ b.props[i].key \notin KnownKeys
          /\ ~BadHotspot(b.props[i])
    /\ Has(b.props, Chars_dirs)

BlocksValid ==
    /\ HeaderValid(doc.header)
    /\ \A i \in DOMAIN doc.states : StateValid(doc.states[i])

\* The terminator, then whitespace only.
TailClean(t) ==
    /\ Len(t) >= Len(EndTag)
    /\ Take(t, Len(EndTag)) = EndTag
    /\ \A i \in (Len(EndTag) + 1)..Len(t) : t[i] \in MultiSpace

\* C1: metadata and Metadata::load return no partial result: when the header
\* block (a version whose f32 is other than 4.0, say) or any one state block
\* is invalid, the call fails; a success holds the header, of version 4.0,
\* and every state block.
C1_NoPartialResult ==
    op \in {"metadata", "load"} =>
        /\ ~BlocksValid => ~res.ok
        /\ res.ok =>
              /\ Len(res.val.states) = Len(doc.states)
              /\ res.val.header.version = SupportedVersion

\* A valid header, a valid state block, then an invalid one: load fails.
C1_Witness ==
    /\ op = "load"
    /\ doc.lead = <<>>
    /\ TailClean(doc.tail)
    /\ HeaderValid(doc.header)
    /\ Len(doc.states) = 2
    /\ StateValid(doc.states[1])
    /\ ~StateValid(doc.states[2])
    /\ ~res.ok

\* C2: metadata succeeds only when the whole input is consumed: nothing
\* before the introducer line, valid blocks, and after the terminator only
\* whitespace; on success the remaining input is empty.
C2_WholeInput ==
    (op = "metadata" /\ res.ok) =>
        /\ res.rest = <<>>
        /\ doc.lead = <<>>
        /\ TailClean(doc.tail)

\* Valid blocks and a terminator followed by a newline and an x: rejected;
\* the same blocks with whitespace after the terminator: accepted.
C2_Witness ==
    /\ op = "metadata"
    /\ BlocksValid
    /\ doc.lead = <<>>
    /\ \/ doc.tail = EndTag \o <<"\n", "x">> /\ ~res.ok
       \/ doc.tail = EndTag \o <<" ", "\t", "\r", "\n">> /\ res.ok /\ doc.states # <<>>

\* C4: on success states has one entry per state block, in input order, and
\* entry i is what the state parser makes of block i alone; two blocks of
\* the same name both appear, each at its place.
C4_StatesInOrder ==
    (op = "metadata" /\ res.ok) =>
        /\ Len(res.val.states) = Len(doc.states)
        /\ \A i \in DOMAIN doc.states :
              LET one == state(FormatBlock(doc.states[i]))
              IN  /\ one.ok
                  /\ res.val.states[i] = one.val
                  /\ res.val.states[i].name = doc.states[i].intro.value.s

\* Two blocks of the same name and different contents.
C4_Witness ==
    /\ op = "metadata"
    /\ res.ok
    /\ Len(doc.states) = 2
    /\ doc.states[1].intro = doc.states[2].intro
    /\ res.val.states[1] # res.val.states[2]

====
